---- MODULE Spec2Model ----
\* Provider selection and failover of the editor: the MCPManager component
\* (src/components/mcp-manager.tsx) and the ModelDetector component
\* (src/unnamed/part_002), each wired to the page of src/unnamed/part_001.
\*
\* React state is modelled as the committed value of each useState cell.  An
\* async handler is split at its awaits; what it closed over when it was
\* created (the `providers` / `models` array of that render) is kept in the
\* record of the in-flight call, because the code reads those stale objects
\* after the await.  Time is abstracted: a timer that is armed may fire at any
\* moment, a pending fetch may settle at any moment.
EXTENDS Integers, Sequences, FiniteSets, TLC

\* ---------------------------------------------------------------- bounds
\* measured latencies (Date.now() - startTime) range over 0..MaxLatency
MaxLatency == 0
\* the same, in the specification of the scan pass alone
MaxScanLatency == 1
\* scanProviders passes that may be awaiting their probes at the same time
MaxScans == 1
\* connectToProvider calls that may be awaiting their probe at the same time
MaxConnects == 1
\* testConnection calls of the health-check interval that may be in flight
MaxMonitors == 1
\* scanModels passes that may be awaiting their probes at the same time
MaxModelScans == 1
\* testModel calls of the Retry button that may be in flight
MaxModelTests == 1
\* scan passes of the two components in one run of the page specification
MaxPagePasses == 2
\* button and switch operations of the user in one run
MaxClicks == 1
\* changes of the environment in one run of the fair specification
MaxEnvChanges == 1
\* the counter of scan passes since the last failed re-probe stops here
MaxPasses == 2
\* analyzeCode calls that may be awaiting their delay at the same time
MaxAnalyses == 1
\* the priority numbers a registry with ties draws from
MaxTiePriority == 2
MaxOverlap == 2
MaxStarted == 3
MaxEdits == 4

NULL == [id |-> "null"]

\* ---------------------------------------------------------------- MCPManager state
VARIABLES
    providers,          \* useState<MCPProvider[]>
    activeProvider,     \* useState<MCPProvider | null>
    isScanning,         \* useState(false)
    autoFallback,       \* useState(true)
    activeMCPProvider,  \* the page's useState, written by handleProviderChange
    scanTimer,          \* the setTimeout of the auto-scan effect is armed
    healthInterval,     \* the setInterval of the health-check effect is running
    scans,              \* scanProviders calls awaiting Promise.allSettled
    connects,           \* connectToProvider calls awaiting testConnection
    monitors,           \* testConnection calls of the health-check interval in flight
    probeError,         \* a testConnection promise was rejected into its caller
    env,                \* environment: what the /health of each local endpoint does
    envChanges,         \* environment changes so far
    clicks,             \* user operations so far
    initialScan,        \* history: the first scan pass has started
    passes,             \* history: scan passes started since the latest failed re-probe
                        \* of the health check (-1: no re-probe has failed yet)
    filteredPass,       \* history: the latest scanModels pass that ended had closed
                        \* over filterBengali = true
    pagePasses,         \* scan passes of both components started so far
    lastModelPass,      \* history: the probe outcomes and the selection of the latest
                        \* scanModels pass that ended
    settleOrder,        \* history: the providers of the latest scanProviders pass in
                        \* the order in which their probes settled
    startOrder          \* history: the operations of MCPManager numbered in the order
                        \* in which they started: the number of the latest, those of
                        \* the passes and the connects in flight, and that of the
                        \* operation that wrote activeProvider last

mcpVars == <<providers, activeProvider, isScanning, autoFallback, activeMCPProvider,
             scanTimer, healthInterval, scans, connects, monitors, probeError, env>>

runVars == <<envChanges, clicks, initialScan, passes, filteredPass, pagePasses,
            lastModelPass, settleOrder, startOrder>>

\* ---------------------------------------------------------------- ModelDetector state
VARIABLES
    models,             \* useState<AIModel[]>, after initializeModels
    activeModel,        \* useState<AIModel | null>
    isScanningModels,   \* useState(false): isScanning of ModelDetector
    autoDetect,         \* useState(true)
    benchmarkMode,      \* useState(false)
    filterBengali,      \* useState(false)
    detectedModels,     \* the page's useState, written by handleModelsDetected
    modelScans,         \* scanModels calls awaiting Promise.allSettled
    modelTests,         \* testModel calls of the Retry button in flight
    benchmarks,         \* benchmarkModel calls in their loop of awaits
    uncaughtError       \* an error left a handler or an async function of ModelDetector

mdVars == <<models, activeModel, isScanningModels, autoDetect, benchmarkMode, filterBengali,
            detectedModels, modelScans, modelTests, benchmarks, uncaughtError>>

\* ---------------------------------------------------------------- AgentExecutor state
VARIABLES
    zombieCoderConnected,   \* the page's useState, written by handleZombieCoderConnection
    code,                   \* the page's useState: the text of the editor
    agentActions,           \* useState<AgentAction[]>
    agentMode,              \* useState("soft")
    analysisFilters,        \* useState: the switch of the syntax category
    isAnalyzing,            \* useState(false)
    autoAnalysis,           \* useState(true)
    debounceTimer,          \* the setTimeout of the auto-analysis effect is armed
    analyses,               \* analyzeCode calls awaiting their delay
    agentMessage            \* the latest message AgentExecutor gave to onAnalysisUpdate

agentVars == <<zombieCoderConnected, code, agentActions, agentMode, analysisFilters,
               isAnalyzing, autoAnalysis, debounceTimer, analyses, agentMessage>>

vars == <<mcpVars, mdVars, runVars, agentVars>>

\* the registry of the useState initialiser (lines 34-87)
InitialProviders ==
    << [id |-> "zombiecoder-local", type |-> "local", status |-> "disconnected",
        latency |-> 0, priority |-> 1, fallbackOrder |-> 1],
       [id |-> "ollama-local", type |-> "local", status |-> "disconnected",
        latency |-> 0, priority |-> 2, fallbackOrder |-> 2],
       [id |-> "lmstudio-local", type |-> "local", status |-> "disconnected",
        latency |-> 0, priority |-> 3, fallbackOrder |-> 3],
       [id |-> "openai-cloud", type |-> "cloud", status |-> "disconnected",
        latency |-> 0, priority |-> 4, fallbackOrder |-> 4] >>

N == Len(InitialProviders)
Idx == 1..N
LocalIds == {InitialProviders[i].id : i \in {j \in Idx : InitialProviders[j].type = "local"}}

\* A provider object as a handler that closed over it reads it after its await.
\* Of the active provider the component reads id, name, latency and
\* capabilities (lines 234, 254-256, 294-297, 344, 429-437) and never status, so
\* the stale status such an object carries is not kept.
Handle(p) ==
    [id |-> p.id, type |-> p.type, latency |-> p.latency, priority |-> p.priority,
     fallbackOrder |-> p.fallbackOrder]

\* ---------------------------------------------------------------- array helpers
RemoveAt(s, i) == SubSeq(s, 1, i - 1) \o SubSeq(s, i + 1, Len(s))

\* Array.prototype.filter with the (element, index) callback: the elements
\* kept, in their order
FilterIdx(s, keep) ==
    LET kept == {i \in 1..Len(s) : keep[i]}
    IN  [k \in 1..Cardinality(kept) |->
            s[CHOOSE i \in kept : Cardinality({j \in kept : j < i}) = k - 1]]

\* a sort that puts the later of two elements of one key first
LastOnTies(s, key) ==
    LET before(i) == {j \in 1..Len(s) : key[j] < key[i] \/ (key[j] = key[i] /\ j > i)}
    IN  [k \in 1..Len(s) |-> s[CHOOSE i \in 1..Len(s) : Cardinality(before(i)) = k - 1]]
\* Array.prototype.sort with a comparator (a, b) => key(a) - key(b): ascending,
\* and stable, so that elements of one key keep their order
StableSort(s, key) ==
    LET before(i) == {j \in 1..Len(s) : key[j] < key[i] \/ (key[j] = key[i] /\ j < i)}
    IN  [k \in 1..Len(s) |-> s[CHOOSE i \in 1..Len(s) : Cardinality(before(i)) = k - 1]]

ByLatency(s) == [i \in 1..Len(s) |-> s[i].latency]
ByPriority(s) == [i \in 1..Len(s) |-> s[i].priority]
ByFallbackOrder(s) == [i \in 1..Len(s) |-> s[i].fallbackOrder]

\* ---------------------------------------------------------------- testConnection
\* what the awaited check of testConnection can do for this provider:
\* lines 110-116 (fetch) for a local one, line 137 (Math.random) for a cloud one
Checks(p) ==
    IF p.type = "local"
    THEN (IF env[p.id] = "up" THEN {"ok"}
          ELSE IF env[p.id] = "down" THEN {"notOk", "networkError", "aborted"}
          ELSE {"ok", "notOk", "networkError", "aborted"})
    ELSE IF p.type = "cloud" THEN {"randomHigh", "randomLow"}
    ELSE {"none"}

\* the settled promise of testConnection: "true" / "false" are fulfilled values
TestConnectionNoCatch(p, check) ==
    IF p.type = "local"
    THEN (IF check = "ok" THEN "true"
          ELSE IF check = "notOk" THEN "false" ELSE "rejected")
    ELSE IF p.type = "cloud" THEN (IF check = "randomHigh" THEN "true" ELSE "false")
    ELSE "false"

TestConnection(p, check) ==
    IF p.type = "local"
    THEN (IF check = "ok" THEN "true" ELSE "false")
    ELSE IF p.type = "cloud" THEN (IF check = "randomHigh" THEN "true" ELSE "false")
    ELSE "false"

\* a prober that moves a provider it finds unreachable to the end of the ranking
RecordProbeDemoting(prev, id, result, latency) ==
    [i \in 1..Len(prev) |->
        IF prev[i].id = id
        THEN (IF result = "true"
              THEN [prev[i] EXCEPT !.status = "connected", !.latency = latency]
              ELSE [prev[i] EXCEPT !.status = "error", !.priority = Len(prev) + 1])
        ELSE prev[i]]
\* the setProviders updater testConnection queues when it settles
\* (lines 121-125, 140-144, 150-152, 155-157)
RecordProbe(prev, id, result, latency) ==
    [i \in 1..Len(prev) |->
        IF prev[i].id = id
        THEN (IF result = "true"
              THEN [prev[i] EXCEPT !.status = "connected", !.latency = latency]
              ELSE [prev[i] EXCEPT !.status = "error"])
        ELSE prev[i]]

\* the latency a settling probe measures
Measured(result, lats) == IF result = "true" THEN lats ELSE {0}

SetStatus(prev, id, st) ==
    [i \in 1..Len(prev) |-> IF prev[i].id = id THEN [prev[i] EXCEPT !.status = st] ELSE prev[i]]

\* a handler that logs the change and stores nothing
ProviderChangeLogged(p) == NULL
\* handleProviderChange of the page: setActiveMCPProvider(providerId)
HandleProviderChange(p) == p

\* ---------------------------------------------------------------- health-check effect
\* an effect that starts the interval on mount and never clears it
IntervalFromMount(active) == TRUE
\* line 254: the effect starts the interval for an active provider only
HealthCheckRuns(active) == active # NULL

\* the effect of lines 253-261 after the render that follows a step: a new
\* activeProvider runs the cleanup (line 259) and the effect again
HealthEffect ==
    healthInterval' = IF activeProvider' # activeProvider
                      THEN HealthCheckRuns(activeProvider')
                      ELSE healthInterval

\* ---------------------------------------------------------------- scanProviders
\* lines 176-181: the providers of the closure whose probe fulfilled with true,
\* in priority order
ConnectedProviders(closure, results) ==
    LET ok == FilterIdx(closure, [i \in 1..Len(closure) |-> results[i] = "true"])
    IN  StableSort(ok, ByPriority(ok))

\* a pass that selected the reachable provider whose probe settled first
FirstAnswered(closure, results) ==
    LET answered == {k \in 1..Len(settleOrder) : results[settleOrder[k]] = "true"}
        connectedProviders == ConnectedProviders(closure, results)
    IN  IF answered # {}
        THEN closure[settleOrder[CHOOSE k \in answered : \A l \in answered : k <= l]]
        ELSE IF Len(connectedProviders) > 0 THEN connectedProviders[1] ELSE NULL
\* lines 183-192: the provider written by the pass, or NULL
BestProvider(closure, results) ==
    LET connectedProviders == ConnectedProviders(closure, results)
    IN  IF Len(connectedProviders) > 0 THEN connectedProviders[1] ELSE NULL

\* a pass that went on as soon as one probe has settled
FirstSettled(results) == \E i \in 1..Len(results) : results[i] # "pending"
\* Promise.allSettled (line 173; part_002 line 290) has resolved
Settled(results) == \A i \in 1..Len(results) : results[i] # "pending"

\* a scanner that invoked testConnection again after a failure, up to retryAttempts
RetryFailed(result, calls) == result # "true" /\ calls < 3

\* line 173 invokes testConnection once per provider and awaits what it returns
RetryProbe(result, calls) == FALSE

\* lines 166-173: up to the await of Promise.allSettled
ScanStart(cap) ==
    /\ Len(scans) < cap
    /\ isScanning' = TRUE
    /\ providers' = [i \in Idx |-> [providers[i] EXCEPT !.status = "connecting"]]
    /\ scans' = Append(scans, [providers |-> [i \in Idx |-> Handle(providers[i])],
                               results |-> [i \in Idx |-> "pending"],
                               calls |-> [i \in Idx |-> 1]])
    /\ scanTimer' = TRUE
    /\ UNCHANGED <<activeProvider, activeMCPProvider, autoFallback, connects, monitors,
                   probeError, env>>
    /\ HealthEffect

\* an auto-scan that runs on mount and never again
TimerFireOnMount(cap) ==
    /\ scanTimer
    /\ providers = InitialProviders
    /\ ScanStart(cap)

\* the setTimeout callback of the auto-scan effect (lines 244-250)
TimerFire(cap) ==
    /\ scanTimer
    /\ ScanStart(cap)

\* the rescan button (lines 300-302)
RescanClick(cap) ==
    /\ ~isScanning
    /\ ScanStart(cap)

\* one testConnection of a pass settles; when it is the last one, allSettled
\* resolves and the rest of scanProviders (lines 175-194) runs in the same task
ScanProbeSettle(s, i, lats) ==
    LET sc == scans[s]
        p == sc.providers[i]
    IN  /\ sc.results[i] = "pending"
        /\ \E check \in Checks(p) :
             LET r == TestConnection(p, check)
                 again == RetryProbe(r, sc.calls[i])
                 results == [sc.results EXCEPT ![i] = IF again THEN "pending" ELSE r]
                 calls == [sc.calls EXCEPT ![i] = IF again THEN @ + 1 ELSE @]
                 best == BestProvider(sc.providers, results)
             IN  /\ \E latency \in Measured(r, lats) :
                        providers' = RecordProbe(providers, p.id, r, latency)
                 /\ IF Settled(results)
                    THEN /\ scans' = RemoveAt(scans, s)
                         /\ activeProvider' = best
                         /\ activeMCPProvider' = HandleProviderChange(best)
                         /\ isScanning' = FALSE
                    ELSE /\ scans' = [scans EXCEPT ![s].results = results, ![s].calls = calls]
                         /\ UNCHANGED <<activeProvider, activeMCPProvider, isScanning>>
        /\ scanTimer' = TRUE
        /\ UNCHANGED <<autoFallback, connects, monitors, probeError, env>>
        /\ HealthEffect

\* ---------------------------------------------------------------- connectToProvider
\* lines 213-215.  The handler reads the providers array it closed over only
\* here, so what this yields is fixed when the handler is created: the call
\* keeps the list instead of the array.
FallbackProviders(closure, id) ==
    LET others == FilterIdx(closure,
                     [i \in 1..Len(closure) |-> closure[i].id # id /\ closure[i].status = "connected"])
        sorted == StableSort(others, ByFallbackOrder(others))
    IN  [i \in 1..Len(sorted) |-> Handle(sorted[i])]

\* the Connect button (lines 406-409) and lines 199-202 up to the await
ConnectClick(i) ==
    /\ providers[i].status \notin {"connected", "connecting"}
    /\ Len(connects) < MaxConnects
    /\ providers' = SetStatus(providers, providers[i].id, "connecting")
    /\ connects' = Append(connects,
            [provider |-> Handle(providers[i]),
             fallbackProviders |-> FallbackProviders(providers, providers[i].id),
             autoFallback |-> autoFallback])
    /\ scanTimer' = TRUE
    /\ UNCHANGED <<activeProvider, activeMCPProvider, isScanning, autoFallback, scans,
                   monitors, probeError, env>>
    /\ HealthEffect

\* lines 204-224
ConnectSettle(c, lats) ==
    LET call == connects[c]
    IN  /\ \E check \in Checks(call.provider) :
             LET success == TestConnection(call.provider, check)
                 fallbackProviders == call.fallbackProviders
             IN  /\ \E latency \in Measured(success, lats) :
                        providers' = RecordProbe(providers, call.provider.id, success, latency)
                 /\ probeError' = (probeError \/ success = "rejected")
                 /\ IF success = "true"
                    THEN /\ activeProvider' = call.provider
                         /\ activeMCPProvider' = HandleProviderChange(call.provider)
                    ELSE IF success = "false" /\ call.autoFallback /\ Len(fallbackProviders) > 0
                    THEN /\ activeProvider' = fallbackProviders[1]
                         /\ activeMCPProvider' = HandleProviderChange(fallbackProviders[1])
                    ELSE UNCHANGED <<activeProvider, activeMCPProvider>>
        /\ connects' = RemoveAt(connects, c)
        /\ scanTimer' = TRUE
        /\ UNCHANGED <<isScanning, autoFallback, scans, monitors, env>>
        /\ HealthEffect

\* ---------------------------------------------------------------- disconnectProvider
\* the Disconnect button (lines 395-404) and lines 230-241
DisconnectProvider(i) ==
    /\ providers[i].status = "connected"
    /\ providers' = SetStatus(providers, providers[i].id, "disconnected")
    /\ IF activeProvider.id = providers[i].id
       THEN /\ activeProvider' = NULL
            /\ activeMCPProvider' = HandleProviderChange(NULL)
       ELSE UNCHANGED <<activeProvider, activeMCPProvider>>
    /\ scanTimer' = TRUE
    /\ UNCHANGED <<isScanning, autoFallback, scans, connects, monitors, probeError, env>>
    /\ HealthEffect

\* ---------------------------------------------------------------- health check
\* the setInterval callback of lines 253-261
HealthTick ==
    /\ healthInterval
    /\ Len(monitors) < MaxMonitors
    /\ monitors' = Append(monitors, activeProvider)
    /\ UNCHANGED <<providers, activeProvider, isScanning, autoFallback, activeMCPProvider,
                   scanTimer, healthInterval, scans, connects, probeError, env>>

\* the testConnection of the interval settles; line 256 drops its value
HealthSettle(m, lats) ==
    LET p == monitors[m]
    IN  /\ \E check \in Checks(p) :
             LET r == TestConnection(p, check)
             IN  /\ \E latency \in Measured(r, lats) :
                        providers' = RecordProbe(providers, p.id, r, latency)
                 /\ probeError' = (probeError \/ r = "rejected")
        /\ monitors' = RemoveAt(monitors, m)
        /\ scanTimer' = TRUE
        /\ UNCHANGED <<activeProvider, activeMCPProvider, isScanning, autoFallback, scans,
                       connects, env>>
        /\ HealthEffect

\* ---------------------------------------------------------------- teardown
\* MCPManager is unmounted (the page shows it inside a tab): the cleanups of
\* lines 249 and 259 clear the timer and the interval; calls that are awaiting
\* are not cancelled
Unmount ==
    /\ scanTimer
    /\ scanTimer' = FALSE
    /\ healthInterval' = FALSE
    /\ UNCHANGED <<providers, activeProvider, isScanning, autoFallback, activeMCPProvider,
                   scans, connects, monitors, probeError, env>>

\* a testConnection of a pass settles after the unmount: the state setters of
\* the unmounted component do nothing, the callbacks of the page still run
\* (lines 186, 190)
OrphanProbeSettle(s, i) ==
    LET sc == scans[s]
        p == sc.providers[i]
    IN  /\ ~scanTimer
        /\ sc.results[i] = "pending"
        /\ \E check \in Checks(p) :
             LET r == TestConnection(p, check)
                 results == [sc.results EXCEPT ![i] = r]
                 best == BestProvider(sc.providers, results)
             IN  IF Settled(results)
                 THEN /\ scans' = RemoveAt(scans, s)
                      /\ activeMCPProvider' = HandleProviderChange(best)
                 ELSE /\ scans' = [scans EXCEPT ![s].results = results]
                      /\ UNCHANGED activeMCPProvider
        /\ UNCHANGED <<providers, activeProvider, isScanning, autoFallback, scanTimer,
                       healthInterval, connects, monitors, probeError, env>>

\* ---------------------------------------------------------------- settings, environment
\* the Auto Fallback switch (line 329)
ToggleAutoFallback ==
    /\ autoFallback' = ~autoFallback
    /\ UNCHANGED <<providers, activeProvider, isScanning, activeMCPProvider, scanTimer,
                   healthInterval, scans, connects, monitors, probeError, env>>

\* a local endpoint starts or stops answering its /health request
EnvChange(id) ==
    /\ env' = [env EXCEPT ![id] = IF @ = "up" THEN "down" ELSE "up"]
    /\ UNCHANGED <<providers, activeProvider, isScanning, autoFallback, activeMCPProvider,
                   scanTimer, healthInterval, scans, connects, monitors, probeError>>

\* ---------------------------------------------------------------- ModelDetector
\* the registry of initializeModels (lines 75-196), with the fields the
\* component's logic reads
InitialModels ==
    << [id |-> "zombiecoder-bengali-v1", provider |-> "zombiecoder", status |-> "offline",
        bengaliSupport |-> TRUE, bengaliScore |-> 95, overallScore |-> 0,
        speed |-> 0, accuracy |-> 0, latency |-> 0],
       [id |-> "ollama-llama3-8b", provider |-> "ollama", status |-> "offline",
        bengaliSupport |-> FALSE, bengaliScore |-> 30, overallScore |-> 0,
        speed |-> 0, accuracy |-> 0, latency |-> 0],
       [id |-> "lmstudio-codellama", provider |-> "lmstudio", status |-> "offline",
        bengaliSupport |-> FALSE, bengaliScore |-> 10, overallScore |-> 0,
        speed |-> 0, accuracy |-> 0, latency |-> 0],
       [id |-> "openai-gpt4", provider |-> "openai", status |-> "offline",
        bengaliSupport |-> TRUE, bengaliScore |-> 75, overallScore |-> 0,
        speed |-> 0, accuracy |-> 0, latency |-> 0] >>

M == Len(InitialModels)
MIdx == 1..M

\* Math.round of num / den, for num >= 0 and den > 0
Round(num, den) == (2 * num + den) \div (2 * den)

Max0(x) == IF x > 0 THEN x ELSE 0

\* a score that counts latency for the model instead of against it
ScoreRewardingLatency(speed, accuracy, latency, bengaliScore) ==
    Round(125 * speed + 105 * accuracy + 6 * latency + 60 * bengaliScore, 300)
\* lines 248-253 and 349-354:
\*   speed / 60 * 25 + accuracy / 100 * 35 + max(0, 100 - latency / 10) / 100 * 20
\*   + bengaliScore / 100 * 20,  over the common denominator 300
OverallScore(speed, accuracy, latency, bengaliScore) ==
    Round(125 * speed + 105 * accuracy + 6 * Max0(1000 - latency) + 60 * bengaliScore, 300)

\* samples of the simulated metrics of testModel (lines 239-240: speed 10..59,
\* accuracy 80..99) with the measured latency, and of benchmarkModel
\* (lines 341-343: speed 20..59, accuracy 85..99, latency 50..249)
ProbeMetrics == {[speed |-> 10, accuracy |-> 80, latency |-> 0]}
BenchmarkMetrics == {[speed |-> 20, accuracy |-> 85, latency |-> 249]}
\* what testModel can draw and measure: lines 239-240, and latencies up to the
\* abort of line 209 and around the 1000 ms at which the latency term ends
SpeedSamples == 10..59
AccuracySamples == 80..99
LatencySamples == {0, 1, 10, 999, 1000, 1001, 5000}
BengaliScores == 0..100
\* two draws of Math.random for one measured latency
ScoreSamples == {[speed |-> 10, accuracy |-> 80, latency |-> 0],
                 [speed |-> 59, accuracy |-> 99, latency |-> 0]}

\* what the awaited check of testModel can do for this model: lines 215-226
\* (fetch) and line 230 (Math.random); for any other provider no request is
\* made and response stays null
ModelChecks(m) ==
    IF m.provider \in {"ollama", "lmstudio", "zombiecoder"}
    THEN {"ok", "notOk", "networkError", "aborted"}
    ELSE IF m.provider = "openai" THEN {"randomHigh", "randomLow"}
    ELSE {"none"}

\* the settled promise of testModel: "true" / "false" are fulfilled values
TestModel(m, check) == IF check \in {"ok", "randomHigh"} THEN "true" ELSE "false"

\* the setModels updater testModel queues when it settles (lines 255-266, 275, 278);
\* m is the model object testModel was called with
RecordModelProbe(prev, m, result, metrics) ==
    [i \in 1..Len(prev) |->
        IF prev[i].id = m.id
        THEN (IF result = "true"
              THEN [prev[i] EXCEPT !.status = "available",
                                   !.speed = metrics.speed,
                                   !.accuracy = metrics.accuracy,
                                   !.latency = metrics.latency,
                                   !.overallScore = OverallScore(metrics.speed, metrics.accuracy,
                                                                 metrics.latency, m.bengaliScore)]
              ELSE [prev[i] EXCEPT !.status = "error"])
        ELSE prev[i]]

\* the page's handleModelsDetected (part_001 lines 113-120) reads models.filter
\* and models.length of its argument; scanModels and selectModel pass it one
\* AIModel or null, and neither has a filter method.  The render of the page
\* that follows reads detectedModels.filter as well (part_001 line 179); what
\* React does with that error is outside this model, which keeps both
\* components mounted.
KindOf(v) == IF v = NULL THEN "null" ELSE "object"
HandleModelsDetected(v) == [detectedModels |-> v, threw |-> KindOf(v) # "array"]

\* the comparator of lines 298-303 as a key of an ascending sort
ByOverallScore(filter, s) == [i \in 1..Len(s) |-> 0 - s[i].overallScore]
BestModelKey(filter, s) ==
    [i \in 1..Len(s) |-> IF filter THEN 0 - s[i].bengaliScore ELSE 0 - s[i].overallScore]

\* lines 292-303
AvailableModels(closure, results) ==
    FilterIdx(closure, [i \in 1..Len(closure) |-> results[i] = "true"])

BestModel(closure, filter, results) ==
    LET availableModels == AvailableModels(closure, results)
    IN  IF Len(availableModels) > 0
        THEN StableSort(availableModels, BestModelKey(filter, availableModels))[1]
        ELSE NULL

\* the model object a handler that closed over it reads after its await: the
\* component reads of it id, provider, bengaliScore, overallScore and the
\* capabilities, never the stale status
ModelHandle(m) ==
    [id |-> m.id, provider |-> m.provider, bengaliSupport |-> m.bengaliSupport,
     bengaliScore |-> m.bengaliScore, overallScore |-> m.overallScore]

\* scanModels up to its await (lines 287-290); every testModel runs up to its
\* fetch and queues its "loading" update (line 205)
ModelScanStart(cap) ==
    /\ Len(modelScans) < cap
    /\ isScanningModels' = TRUE
    /\ models' = [i \in MIdx |-> [models[i] EXCEPT !.status = "loading"]]
    /\ modelScans' = Append(modelScans,
                            [models |-> [i \in MIdx |-> ModelHandle(models[i])],
                             filterBengali |-> filterBengali,
                             results |-> [i \in MIdx |-> "pending"],
                             calls |-> [i \in MIdx |-> 1]])
    /\ UNCHANGED <<activeModel, autoDetect, benchmarkMode, filterBengali, detectedModels,
                   modelTests, benchmarks, uncaughtError>>

\* the setTimeout callback of the auto-detect effect (lines 391-398)
DetectTimerFire(cap) ==
    /\ autoDetect
    /\ ModelScanStart(cap)

\* the scan button (lines 443-450)
ScanModelsClick(cap) ==
    /\ ~isScanningModels
    /\ ~benchmarkMode
    /\ ModelScanStart(cap)

\* one testModel of a pass settles; when it is the last one, allSettled
\* resolves and the rest of scanModels (lines 292-314) runs in the same task,
\* as far as the parent's handler lets it
ModelProbeSettle(s, i, samples) ==
    LET sc == modelScans[s]
        m == sc.models[i]
    IN  /\ sc.results[i] = "pending"
        /\ \E check \in ModelChecks(m) :
             LET r == TestModel(m, check)
                 again == RetryProbe(r, sc.calls[i])
                 results == [sc.results EXCEPT ![i] = IF again THEN "pending" ELSE r]
                 calls == [sc.calls EXCEPT ![i] = IF again THEN @ + 1 ELSE @]
                 best == BestModel(sc.models, sc.filterBengali, results)
                 handled == HandleModelsDetected(best)
             IN  /\ \E metrics \in (IF r = "true" THEN samples ELSE {CHOOSE x \in samples : TRUE}) :
                        models' = RecordModelProbe(models, m, r, metrics)
                 /\ IF Settled(results)
                    THEN /\ modelScans' = RemoveAt(modelScans, s)
                         /\ activeModel' = best
                         /\ detectedModels' = handled.detectedModels
                         /\ uncaughtError' = (uncaughtError \/ handled.threw)
                         /\ isScanningModels' = IF handled.threw THEN isScanningModels ELSE FALSE
                    ELSE /\ modelScans' = [modelScans EXCEPT ![s].results = results,
                                                             ![s].calls = calls]
                         /\ UNCHANGED <<activeModel, detectedModels, uncaughtError,
                                        isScanningModels>>
        /\ UNCHANGED <<autoDetect, benchmarkMode, filterBengali, modelTests, benchmarks>>

\* a click on a model of the list or on its Select button (lines 514, 581-584):
\* selectModel (lines 375-384) with the model of the current render
SelectModel(i) ==
    LET handled == HandleModelsDetected(ModelHandle(models[i]))
    IN  /\ filterBengali => models[i].bengaliSupport
        /\ models[i].status = "available"
        /\ activeModel' = ModelHandle(models[i])
        /\ detectedModels' = handled.detectedModels
        /\ uncaughtError' = (uncaughtError \/ handled.threw)
        /\ UNCHANGED <<models, isScanningModels, autoDetect, benchmarkMode, filterBengali,
                       modelScans, modelTests, benchmarks>>

\* the Retry button of a model in status error (lines 605-618): testModel alone
RetryClick(i) ==
    /\ filterBengali => models[i].bengaliSupport
    /\ models[i].status = "error"
    /\ Len(modelTests) < MaxModelTests
    /\ models' = [models EXCEPT ![i].status = "loading"]
    /\ modelTests' = Append(modelTests, ModelHandle(models[i]))
    /\ UNCHANGED <<activeModel, isScanningModels, autoDetect, benchmarkMode, filterBengali,
                   detectedModels, modelScans, benchmarks, uncaughtError>>

RetrySettle(t, samples) ==
    LET m == modelTests[t]
    IN  /\ \E check \in ModelChecks(m) :
             LET r == TestModel(m, check)
             IN  /\ \E metrics \in (IF r = "true" THEN samples ELSE {CHOOSE x \in samples : TRUE}) :
                        models' = RecordModelProbe(models, m, r, metrics)
                 /\ uncaughtError' = (uncaughtError \/ r = "rejected")
        /\ modelTests' = RemoveAt(modelTests, t)
        /\ UNCHANGED <<activeModel, isScanningModels, autoDetect, benchmarkMode, filterBengali,
                       detectedModels, modelScans, benchmarks>>

\* the Benchmark button (lines 590-602) and benchmarkModel up to its awaits
\* (lines 319-337)
BenchmarkClick(i) ==
    /\ filterBengali => models[i].bengaliSupport
    /\ models[i].status = "available"
    /\ ~benchmarkMode
    /\ benchmarkMode' = TRUE
    /\ benchmarks' = Append(benchmarks, ModelHandle(models[i]))
    /\ UNCHANGED <<models, activeModel, isScanningModels, autoDetect, filterBengali,
                   detectedModels, modelScans, modelTests, uncaughtError>>

\* the rest of benchmarkModel (lines 339-369)
BenchmarkSettle(b, samples) ==
    LET m == benchmarks[b]
    IN  /\ \E metrics \in samples :
             models' = [i \in 1..Len(models) |->
                           IF models[i].id = m.id
                           THEN [models[i] EXCEPT !.speed = metrics.speed,
                                                  !.accuracy = metrics.accuracy,
                                                  !.latency = metrics.latency,
                                                  !.overallScore =
                                    OverallScore(metrics.speed, metrics.accuracy,
                                                 metrics.latency, m.bengaliScore)]
                           ELSE models[i]]
        /\ benchmarkMode' = FALSE
        /\ benchmarks' = RemoveAt(benchmarks, b)
        /\ UNCHANGED <<activeModel, isScanningModels, autoDetect, filterBengali,
                       detectedModels, modelScans, modelTests, uncaughtError>>

\* the switches of lines 458 and 462
ToggleAutoDetect ==
    /\ autoDetect' = ~autoDetect
    /\ UNCHANGED <<models, activeModel, isScanningModels, benchmarkMode, filterBengali,
                   detectedModels, modelScans, modelTests, benchmarks, uncaughtError>>

ToggleFilterBengali ==
    /\ filterBengali' = ~filterBengali
    /\ UNCHANGED <<models, activeModel, isScanningModels, autoDetect, benchmarkMode,
                   detectedModels, modelScans, modelTests, benchmarks, uncaughtError>>

\* ---------------------------------------------------------------- AgentExecutor
\* src/components/agent-executor.tsx.  The text of the editor is kept as its
\* revision, as whether it is longer than the 50 characters of line 338, and
\* as its lines, each line as what the rules of analyzeCode see in it: the
\* anthem phrase without its completion ("anthem"), a fetch( ("fetch"), a try
\* ("try") or none of these.  Of the rules of analyzeCode the model keeps the
\* completion of the anthem (lines 82-97), the missing error handling (lines
\* 141-160) and the three syntax suggestions every analysis yields (lines
\* 255-292); of the filters the switch of the syntax category.

\* the text of part_001 lines 25-48 (no rule of the model fires on it), and the
\* texts the user types
InitialLines == <<"plain", "plain", "plain", "plain">>
Texts == {[long |-> FALSE, lines |-> <<"plain">>],
          [long |-> TRUE, lines |-> <<"anthem", "plain", "fetch", "plain">>]}

\* part_001 line 358: mcpActive={!!activeMCPProvider || zombieCoderConnected}
McpActive == activeMCPProvider # NULL \/ zombieCoderConnected

\* an effect that arms the timer for every long text
ArmedWithoutProvider(auto, active, c) == auto /\ c.long
\* the condition of the auto-analysis effect (line 338)
AutoAnalysisArmed(auto, active, c) == auto /\ active /\ c.long

\* the dependencies of the effect (line 344) and, through analyzeCode, of its
\* callback (line 304)
EffectDeps == <<code, autoAnalysis, McpActive, agentMode, analysisFilters>>

\* the timer after the render that follows a step: a change of a dependency
\* runs the cleanup (line 342) and the effect again, otherwise the timer is as
\* the step left it
Effect(timer) ==
    debounceTimer' = IF EffectDeps' # EffectDeps
                     THEN AutoAnalysisArmed(autoAnalysis', McpActive', code')
                     ELSE timer

\* lines 82-97: the rule of the anthem, on line n
BengaliAction(n, mode) ==
    [id |-> <<"bengali", n>>, type |-> "complete", line |-> n,
     suggested |-> <<"anthem", "// completion">>, mode |-> mode, category |-> "bengali"]

\* lines 141-160: the rule of the missing error handling, on line n
ErrorHandlingAction(n, mode) ==
    [id |-> <<"error-handling", n>>, type |-> "fix", line |-> n,
     suggested |-> <<"try", "  fetch", "} catch (error) {", "  console.error", "}">>,
     mode |-> mode, category |-> "security"]

\* lines 255-292: the three suggestions of the syntax category, on lines 1 to 3
SyntaxErrorActions(mode) ==
    {[id |-> <<"syntax-error", n>>, type |-> "fix", line |-> n,
      suggested |-> <<"syntax fix">>, mode |-> mode, category |-> "syntax"] : n \in 1..3}

\* lines 74-299: the suggestions an analysis of these lines ends with
Suggestions(filters, mode, lines) ==
    LET hasTry == \E k \in 1..Len(lines) : lines[k] = "try"
    IN  {BengaliAction(n, mode) : n \in {k \in 1..Len(lines) : lines[k] = "anthem"}}
        \cup {ErrorHandlingAction(n, mode) :
                 n \in {k \in 1..Len(lines) : lines[k] = "fetch" /\ ~hasTry}}
        \cup (IF filters THEN SyntaxErrorActions(mode) ELSE {})

\* lines[n - 1] = v on the array of code.split("\n"): an index past the end
\* leaves holes, which join("\n") writes as empty lines
SetLine(lines, n, v) ==
    [k \in 1..(IF n > Len(lines) THEN n ELSE Len(lines)) |->
        IF k = n THEN v ELSE IF k <= Len(lines) THEN lines[k] ELSE ""]

\* lines.splice(n, 0, ...more)
Splice(lines, n, more) ==
    LET at == IF n > Len(lines) THEN Len(lines) ELSE n
    IN  SubSeq(lines, 1, at) \o more \o SubSeq(lines, at + 1, Len(lines))

\* lines 309-323: the lines executeAction hands to onCodeChange in strict mode
AppliedLines(lines, action) ==
    LET first == SetLine(lines, action.line, action.suggested[1])
    IN  IF action.type = "complete" /\ Len(action.suggested) > 1
        THEN Splice(first, action.line, Tail(action.suggested))
        ELSE first

\* analyzeCode up to its await (lines 62-72), in a render with mcpActive = active
AnalyzeCode(active) ==
    IF ~active
    THEN /\ agentMessage' = "noProvider"
         /\ UNCHANGED <<isAnalyzing, analyses>>
    ELSE /\ isAnalyzing' = TRUE
         /\ agentMessage' = "analyzing"
         /\ analyses' = Append(analyses, [filters |-> analysisFilters, mode |-> agentMode,
                                         lines |-> code.lines])

\* the Analyze buttons (lines 387-391 and 513-518)
AnalyzeClick ==
    /\ McpActive
    /\ ~isAnalyzing
    /\ Len(analyses) < MaxAnalyses
    /\ AnalyzeCode(McpActive)
    /\ UNCHANGED <<zombieCoderConnected, code, agentActions, agentMode, analysisFilters,
                   autoAnalysis, activeMCPProvider>>
    /\ Effect(debounceTimer)

\* the setTimeout callback of the auto-analysis effect (lines 339-341)
DebounceFire ==
    /\ debounceTimer
    /\ Len(analyses) < MaxAnalyses
    /\ AnalyzeCode(McpActive)
    /\ UNCHANGED <<zombieCoderConnected, code, agentActions, agentMode, analysisFilters,
                   autoAnalysis, activeMCPProvider>>
    /\ Effect(FALSE)

\* the rest of analyzeCode (lines 75-303)
AnalyzeSettle(a) ==
    /\ agentActions' = Suggestions(analyses[a].filters, analyses[a].mode, analyses[a].lines)
    /\ isAnalyzing' = FALSE
    /\ agentMessage' = "complete"
    /\ analyses' = RemoveAt(analyses, a)
    /\ UNCHANGED <<zombieCoderConnected, code, agentMode, analysisFilters, autoAnalysis,
                   activeMCPProvider>>
    /\ Effect(debounceTimer)

\* executeAction (lines 307-334)
ExecuteAction(action) ==
    /\ action \in agentActions
    /\ IF action.mode = "strict"
       THEN /\ \E long \in BOOLEAN :
                   code' = [long |-> long, rev |-> code.rev + 1,
                            lines |-> AppliedLines(code.lines, action)]
            /\ agentMessage' = "applied"
       ELSE /\ agentMessage' = "suggestion"
            /\ UNCHANGED code
    /\ agentActions' = {a \in agentActions : a.id # action.id}
    /\ UNCHANGED <<zombieCoderConnected, agentMode, analysisFilters, isAnalyzing, autoAnalysis,
                   analyses, activeMCPProvider>>
    /\ Effect(debounceTimer)

\* the Textarea of the page (part_001 line 341)
TypeCode(long) ==
    /\ \E text \in Texts :
          /\ text.long = long
          /\ code' = [long |-> long, rev |-> code.rev + 1, lines |-> text.lines]
    /\ UNCHANGED <<zombieCoderConnected, agentActions, agentMode, analysisFilters, isAnalyzing,
                   autoAnalysis, analyses, agentMessage, activeMCPProvider>>
    /\ Effect(debounceTimer)

\* the switches of lines 408-411, 419-422 and 430-436
ToggleAgentMode ==
    /\ agentMode' = IF agentMode = "soft" THEN "strict" ELSE "soft"
    /\ UNCHANGED <<zombieCoderConnected, code, agentActions, analysisFilters, isAnalyzing,
                   autoAnalysis, analyses, agentMessage, activeMCPProvider>>
    /\ Effect(debounceTimer)

ToggleAutoAnalysis ==
    /\ autoAnalysis' = ~autoAnalysis
    /\ UNCHANGED <<zombieCoderConnected, code, agentActions, agentMode, analysisFilters,
                   isAnalyzing, analyses, agentMessage, activeMCPProvider>>
    /\ Effect(debounceTimer)

ToggleAnalysisFilter ==
    /\ analysisFilters' = ~analysisFilters
    /\ UNCHANGED <<zombieCoderConnected, code, agentActions, agentMode, isAnalyzing,
                   autoAnalysis, analyses, agentMessage, activeMCPProvider>>
    /\ Effect(debounceTimer)

\* the page's handleZombieCoderConnection (part_001 lines 154-160)
HandleZombieCoderConnection(connected) ==
    /\ zombieCoderConnected' = connected
    /\ UNCHANGED <<code, agentActions, agentMode, analysisFilters, isAnalyzing, autoAnalysis,
                   analyses, agentMessage, activeMCPProvider>>
    /\ Effect(debounceTimer)

\* AgentExecutor in a step of MCPManager: the page renders it with the new
\* mcpActive
AgentRendered ==
    /\ UNCHANGED <<zombieCoderConnected, code, agentActions, agentMode, analysisFilters,
                   isAnalyzing, autoAnalysis, analyses, agentMessage>>
    /\ Effect(debounceTimer)

\* ---------------------------------------------------------------- the page, mounted
StatusOf(ps, id) == ps[CHOOSE i \in 1..Len(ps) : ps[i].id = id].status

\* the page after its first render and effects, for a registry of providers
MountedWith(registry) ==
    /\ providers = registry
    /\ activeProvider = NULL
    /\ isScanning = FALSE
    /\ autoFallback = TRUE
    /\ activeMCPProvider = NULL
    /\ scanTimer = TRUE
    /\ healthInterval = FALSE
    /\ scans = << >>
    /\ connects = << >>
    /\ monitors = << >>
    /\ probeError = FALSE
    /\ envChanges = 0
    /\ clicks = 0
    /\ initialScan = FALSE
    /\ passes = -1
    /\ filteredPass = FALSE
    /\ pagePasses = 0
    /\ lastModelPass = [results |-> << >>, metrics |-> << >>, selection |-> NULL]
    /\ settleOrder = << >>
    /\ startOrder = [clock |-> 0, scans |-> << >>, connects |-> << >>, writer |-> 0]
    /\ models = InitialModels
    /\ activeModel = NULL
    /\ isScanningModels = FALSE
    /\ autoDetect = TRUE
    /\ benchmarkMode = FALSE
    /\ filterBengali = FALSE
    /\ detectedModels = << >>
    /\ modelScans = << >>
    /\ modelTests = << >>
    /\ benchmarks = << >>
    /\ uncaughtError = FALSE
    /\ zombieCoderConnected = FALSE
    /\ code = [long |-> TRUE, rev |-> 0, lines |-> InitialLines]
    /\ agentActions = {}
    /\ agentMode = "soft"
    /\ analysisFilters = TRUE
    /\ isAnalyzing = FALSE
    /\ autoAnalysis = TRUE
    /\ debounceTimer = FALSE
    /\ analyses = << >>
    /\ agentMessage = "none"

Mounted == MountedWith(InitialProviders)

\* a user operation on MCPManager, within the budget of the run
Click ==
    /\ clicks < MaxClicks
    /\ clicks' = clicks + 1
    /\ UNCHANGED <<startOrder, settleOrder, envChanges, initialScan, passes, filteredPass, pagePasses,
                   lastModelPass, mdVars, agentVars>>

\* a step of MCPManager that is no user operation
Auto == UNCHANGED <<runVars, mdVars, agentVars>>

\* the same for ModelDetector
ModelClick ==
    /\ clicks < MaxClicks
    /\ clicks' = clicks + 1
    /\ UNCHANGED <<startOrder, settleOrder, envChanges, initialScan, passes, filteredPass, pagePasses,
                   lastModelPass, mcpVars, agentVars>>

ModelAuto == UNCHANGED <<runVars, mcpVars, agentVars>>

\* history of ModelDetector: a step that ends pass s records the filter of the pass
ModelProbed(s) ==
    /\ filteredPass' = IF modelScans' = RemoveAt(modelScans, s)
                       THEN modelScans[s].filterBengali ELSE filteredPass
    /\ UNCHANGED <<startOrder, settleOrder, envChanges, clicks, initialScan, passes, pagePasses,
                   lastModelPass, mcpVars, agentVars>>

Latencies == 0..MaxLatency

\* every endpoint may answer either way on every request
Init ==
    /\ Mounted
    /\ env = [id \in LocalIds |-> "flaky"]

Next ==
    \/ TimerFire(MaxScans) /\ Auto
    \/ RescanClick(MaxScans) /\ Click
    \/ \E s \in 1..Len(scans) : \E i \in Idx : ScanProbeSettle(s, i, Latencies) /\ Auto
    \/ \E i \in Idx : ConnectClick(i) /\ Click
    \/ \E c \in 1..Len(connects) : ConnectSettle(c, Latencies) /\ Auto
    \/ \E i \in Idx : DisconnectProvider(i) /\ Click
    \/ HealthTick /\ Auto
    \/ \E m \in 1..Len(monitors) : HealthSettle(m, Latencies) /\ Auto
    \/ ToggleAutoFallback /\ Click

Spec == Init /\ [][Next]_vars

\* ---------------------------------------------------------------- the monitor alone
\* History of the failover monitor: a pass starts, a re-probe settles.
PassStarted ==
    /\ initialScan' = TRUE
    /\ passes' = IF passes >= 0 /\ passes < MaxPasses THEN passes + 1 ELSE passes
    /\ UNCHANGED <<startOrder, settleOrder, clicks, envChanges, filteredPass, pagePasses, lastModelPass,
                   mdVars, agentVars>>

Reprobed(m) ==
    /\ passes' = IF StatusOf(providers', monitors[m].id) = "error" THEN 0 ELSE passes
    /\ UNCHANGED <<startOrder, settleOrder, clicks, envChanges, initialScan, filteredPass, pagePasses,
                   lastModelPass, mdVars, agentVars>>

ManualPass ==
    /\ clicks < MaxClicks
    /\ clicks' = clicks + 1
    /\ initialScan' = TRUE
    /\ passes' = IF passes >= 0 /\ passes < MaxPasses THEN passes + 1 ELSE passes
    /\ UNCHANGED <<startOrder, settleOrder, envChanges, filteredPass, pagePasses, lastModelPass, mdVars,
                   agentVars>>

MonitorNext ==
    \/ TimerFire(MaxScans) /\ PassStarted
    \/ RescanClick(MaxScans) /\ ManualPass
    \/ \E s \in 1..Len(scans) : \E i \in Idx : ScanProbeSettle(s, i, Latencies) /\ Auto
    \/ HealthTick /\ Auto
    \/ \E m \in 1..Len(monitors) : HealthSettle(m, Latencies) /\ Reprobed(m)

MonitorSpec == Init /\ [][MonitorNext]_vars

\* ---------------------------------------------------------------- the monitor, fair
\* Local endpoints that answer or do not, and change a bounded number of times.
\* A timer that stays armed fires and a request that is under way settles (with
\* an answer, an error or the abort of its timeout), hence the weak fairness.
EnvTurn(id) ==
    /\ envChanges < MaxEnvChanges
    /\ envChanges' = envChanges + 1
    /\ UNCHANGED <<startOrder, settleOrder, clicks, initialScan, passes, filteredPass, pagePasses,
                   lastModelPass, mdVars, agentVars>>

LiveInit == Mounted /\ env \in [LocalIds -> {"up", "down"}]

LiveTimer == TimerFire(MaxScans) /\ PassStarted
LiveProbe == \E s \in 1..Len(scans) : \E i \in Idx : ScanProbeSettle(s, i, Latencies) /\ Auto
LiveReprobe == \E m \in 1..Len(monitors) : HealthSettle(m, Latencies) /\ Reprobed(m)

LiveNext ==
    \/ LiveTimer
    \/ LiveProbe
    \/ HealthTick /\ Auto
    \/ LiveReprobe
    \/ \E id \in LocalIds : EnvChange(id) /\ EnvTurn(id)

LiveSpec ==
    /\ LiveInit
    /\ [][LiveNext]_vars
    /\ WF_vars(LiveTimer)
    /\ WF_vars(LiveProbe)
    /\ WF_vars(LiveReprobe)

\* ---------------------------------------------------------------- the scan pass alone
ScanLatencies == 0..MaxScanLatency

ScanNext ==
    \/ TimerFire(MaxScans) /\ Auto
    \/ RescanClick(MaxScans) /\ Click
    \/ \E s \in 1..Len(scans) : \E i \in Idx : ScanProbeSettle(s, i, ScanLatencies) /\ Auto

ScanSpec == Init /\ [][ScanNext]_vars

\* ---------------------------------------------------------------- ModelDetector alone
DetectorNext ==
    \/ DetectTimerFire(MaxModelScans) /\ ModelAuto
    \/ ScanModelsClick(MaxModelScans) /\ ModelClick
    \/ \E s \in 1..Len(modelScans) : \E i \in MIdx :
          ModelProbeSettle(s, i, ProbeMetrics) /\ ModelProbed(s)
    \/ \E i \in MIdx : SelectModel(i) /\ ModelClick
    \/ \E i \in MIdx : RetryClick(i) /\ ModelClick
    \/ \E t \in 1..Len(modelTests) : RetrySettle(t, ProbeMetrics) /\ ModelAuto
    \/ \E i \in MIdx : BenchmarkClick(i) /\ ModelClick
    \/ \E b \in 1..Len(benchmarks) : BenchmarkSettle(b, BenchmarkMetrics) /\ ModelAuto
    \/ ToggleAutoDetect /\ ModelClick
    \/ ToggleFilterBengali /\ ModelClick

DetectorSpec == Init /\ [][DetectorNext]_vars

\* ---------------------------------------------------------------- repeated detection
\* the results array the rest of scanModels reads in a step that ends pass s:
\* the results collected so far and the one of the testModel that settles in the step
FinalModelResults(s) ==
    [i \in MIdx |->
        IF modelScans[s].results[i] # "pending" THEN modelScans[s].results[i]
        ELSE IF models'[i].status = "available" THEN "true" ELSE "false"]

ModelPassEnds(s) == modelScans' = RemoveAt(modelScans, s)

\* history: a step that ends pass s records what the pass measured and selected
ModelPassRecorded(s) ==
    /\ lastModelPass' =
          IF ModelPassEnds(s)
          THEN [results |-> FinalModelResults(s),
                metrics |-> [i \in MIdx |-> <<models'[i].latency, models'[i].overallScore>>],
                selection |-> activeModel']
          ELSE lastModelPass
    /\ UNCHANGED <<startOrder, settleOrder, envChanges, clicks, initialScan, passes, filteredPass,
                   pagePasses, mcpVars, agentVars>>

\* a scan pass starts, within the number of passes of the run
PagePass(others) ==
    /\ pagePasses < MaxPagePasses
    /\ pagePasses' = pagePasses + 1
    /\ UNCHANGED <<startOrder, settleOrder, envChanges, clicks, initialScan, passes, filteredPass,
                   lastModelPass, others, agentVars>>

\* The auto-detect timer alone: one pass after the other, each testModel
\* drawing its metrics anew.
RescoreNext ==
    \/ DetectTimerFire(MaxModelScans) /\ PagePass(mcpVars)
    \/ \E s \in 1..Len(modelScans) : \E i \in MIdx :
          ModelProbeSettle(s, i, ScoreSamples) /\ ModelPassRecorded(s)

RescoreSpec == Init /\ [][RescoreNext]_vars

\* ---------------------------------------------------------------- both components
\* The page with its two components at work on their own: the timers, the
\* probes and the health check.
PageNext ==
    \/ TimerFire(MaxScans) /\ PagePass(mdVars)
    \/ \E s \in 1..Len(scans) : \E i \in Idx : ScanProbeSettle(s, i, Latencies) /\ Auto
    \/ HealthTick /\ Auto
    \/ \E m \in 1..Len(monitors) : HealthSettle(m, Latencies) /\ Auto
    \/ DetectTimerFire(MaxModelScans) /\ PagePass(mcpVars)
    \/ \E s \in 1..Len(modelScans) : \E i \in MIdx :
          ModelProbeSettle(s, i, ProbeMetrics) /\ ModelAuto

PageSpec == Init /\ [][PageNext]_vars

\* ---------------------------------------------------------------- teardown during a pass
TeardownNext ==
    \/ TimerFire(MaxScans) /\ Auto
    \/ \E s \in 1..Len(scans) : \E i \in Idx :
          scanTimer /\ ScanProbeSettle(s, i, Latencies) /\ Auto
    \/ Unmount /\ Click
    \/ \E s \in 1..Len(scans) : \E i \in Idx : OrphanProbeSettle(s, i) /\ Auto

TeardownSpec == Init /\ [][TeardownNext]_vars

\* ---------------------------------------------------------------- the agent and the selection
\* AgentExecutor beside the scan passes of MCPManager and the connection of
\* ZombieCoder.
AgentClick ==
    /\ clicks < MaxClicks
    /\ clicks' = clicks + 1
    /\ UNCHANGED <<startOrder, settleOrder, envChanges, initialScan, passes, filteredPass, pagePasses,
                   lastModelPass>>

AgentAuto == UNCHANGED runVars

AgentOnly == UNCHANGED <<providers, activeProvider, isScanning, autoFallback, scanTimer,
                         healthInterval, scans, connects, monitors, probeError, env, mdVars>>

AgentNext ==
    \/ TimerFire(MaxScans) /\ AgentRendered /\ UNCHANGED <<runVars, mdVars>>
    \/ \E s \in 1..Len(scans) : \E i \in Idx :
          ScanProbeSettle(s, i, Latencies) /\ AgentRendered /\ UNCHANGED <<runVars, mdVars>>
    \/ \E connected \in BOOLEAN :
          /\ envChanges < MaxEnvChanges
          /\ envChanges' = envChanges + 1
          /\ HandleZombieCoderConnection(connected) /\ AgentOnly
          /\ UNCHANGED <<startOrder, settleOrder, clicks, initialScan, passes, filteredPass, pagePasses,
                         lastModelPass>>
    \/ AnalyzeClick /\ AgentClick /\ AgentOnly
    \/ DebounceFire /\ AgentAuto /\ AgentOnly
    \/ \E a \in 1..Len(analyses) : AnalyzeSettle(a) /\ AgentAuto /\ AgentOnly
    \/ \E action \in agentActions : ExecuteAction(action) /\ AgentClick /\ AgentOnly
    \/ \E long \in BOOLEAN : TypeCode(long) /\ AgentClick /\ AgentOnly
    \/ ToggleAgentMode /\ AgentClick /\ AgentOnly
    \/ ToggleAutoAnalysis /\ AgentClick /\ AgentOnly
    \/ ToggleAnalysisFilter /\ AgentClick /\ AgentOnly

AgentSpec == Init /\ [][AgentNext]_vars

\* ---------------------------------------------------------------- the editor at work
\* AgentExecutor with ZombieCoder connected or not: the user types, switches
\* the mode, analyzes and applies suggestions, up to MaxEdits operations.
EditClick ==
    /\ clicks < MaxEdits
    /\ clicks' = clicks + 1
    /\ UNCHANGED <<startOrder, settleOrder, envChanges, initialScan, passes, filteredPass,
                   pagePasses, lastModelPass>>

EditNext ==
    \/ \E connected \in BOOLEAN :
          /\ envChanges < MaxEnvChanges
          /\ envChanges' = envChanges + 1
          /\ HandleZombieCoderConnection(connected) /\ AgentOnly
          /\ UNCHANGED <<startOrder, settleOrder, clicks, initialScan, passes, filteredPass,
                         pagePasses, lastModelPass>>
    \/ AnalyzeClick /\ EditClick /\ AgentOnly
    \/ DebounceFire /\ AgentAuto /\ AgentOnly
    \/ \E a \in 1..Len(analyses) : AnalyzeSettle(a) /\ AgentAuto /\ AgentOnly
    \/ \E action \in agentActions : ExecuteAction(action) /\ EditClick /\ AgentOnly
    \/ \E long \in BOOLEAN : TypeCode(long) /\ EditClick /\ AgentOnly
    \/ ToggleAgentMode /\ EditClick /\ AgentOnly

EditSpec == Init /\ [][EditNext]_vars

\* ---------------------------------------------------------------- the order of the answers
\* The scan passes of the timer, with the order in which the probes of a pass
\* settle on record.
OrderReset ==
    /\ settleOrder' = << >>
    /\ UNCHANGED <<startOrder, envChanges, clicks, initialScan, passes, filteredPass,
                   pagePasses, lastModelPass, mdVars, agentVars>>

OrderRecorded(i) ==
    /\ settleOrder' = Append(settleOrder, i)
    /\ UNCHANGED <<startOrder, envChanges, clicks, initialScan, passes, filteredPass,
                   pagePasses, lastModelPass, mdVars, agentVars>>

OrderNext ==
    \/ TimerFire(MaxScans) /\ OrderReset
    \/ \E s \in 1..Len(scans) : \E i \in Idx :
          ScanProbeSettle(s, i, Latencies) /\ OrderRecorded(i)

OrderSpec == Init /\ [][OrderNext]_vars

\* ---------------------------------------------------------------- passes that overlap
\* MCPManager alone with room for a second pass: the timer of the auto-scan
\* effect, which every setProviders re-arms, the rescan button, and the probes.
OverlapNext ==
    \/ TimerFire(MaxOverlap) /\ Auto
    \/ RescanClick(MaxOverlap) /\ Click
    \/ \E s \in 1..Len(scans) : \E i \in Idx : ScanProbeSettle(s, i, Latencies) /\ Auto

OverlapSpec == Init /\ [][OverlapNext]_vars

\* ---------------------------------------------------------------- operations that race
\* MCPManager with the order in which its operations start on record: a pass
\* of the timer, a connect and disconnects, each numbered when it starts, up to
\* MaxStarted operations; the operation that calls setActiveProvider leaves its
\* number as the writer.
RaceOthers == <<settleOrder, envChanges, initialScan, passes, filteredPass, pagePasses,
                lastModelPass, mdVars, agentVars>>

ScanStarted ==
    /\ startOrder.clock < MaxStarted
    /\ startOrder' = [startOrder EXCEPT !.clock = @ + 1,
                                        !.scans = Append(@, startOrder.clock + 1)]
    /\ UNCHANGED <<clicks, RaceOthers>>

\* lines 185-191: the pass that ends writes activeProvider on either branch
ScanSettled(s) ==
    /\ startOrder' = IF scans' = RemoveAt(scans, s)
                     THEN [startOrder EXCEPT !.scans = RemoveAt(@, s),
                                             !.writer = startOrder.scans[s]]
                     ELSE startOrder
    /\ UNCHANGED <<clicks, RaceOthers>>

ConnectStarted ==
    /\ startOrder.clock < MaxStarted
    /\ startOrder' = [startOrder EXCEPT !.clock = @ + 1,
                                        !.connects = Append(@, startOrder.clock + 1)]
    /\ UNCHANGED <<clicks, RaceOthers>>

\* lines 204-206 and 213-221: a connect writes activeProvider when its probe
\* succeeds, and when it fails with autoFallback and a fallback to switch to
ConnectSettled(c) ==
    LET call == connects[c]
        wrote == \/ StatusOf(providers', call.provider.id) = "connected"
                 \/ call.autoFallback /\ Len(call.fallbackProviders) > 0
    IN  /\ startOrder' = [startOrder EXCEPT !.connects = RemoveAt(@, c),
                                            !.writer = IF wrote THEN startOrder.connects[c]
                                                       ELSE @]
        /\ UNCHANGED <<clicks, RaceOthers>>

\* lines 234-236: a disconnect writes activeProvider when it is the active one
Disconnected(i) ==
    /\ startOrder.clock < MaxStarted
    /\ startOrder' = [startOrder EXCEPT !.clock = @ + 1,
                                        !.writer = IF activeProvider.id = providers[i].id
                                                   THEN startOrder.clock + 1 ELSE @]
    /\ UNCHANGED <<clicks, RaceOthers>>

RaceNext ==
    \/ TimerFire(MaxScans) /\ ScanStarted
    \/ \E s \in 1..Len(scans) : \E i \in Idx :
          ScanProbeSettle(s, i, Latencies) /\ ScanSettled(s)
    \/ \E i \in Idx : ConnectClick(i) /\ ConnectStarted
    \/ \E c \in 1..Len(connects) : ConnectSettle(c, Latencies) /\ ConnectSettled(c)
    \/ \E i \in Idx : DisconnectProvider(i) /\ Disconnected(i)

RaceSpec == Init /\ [][RaceNext]_vars

\* ---------------------------------------------------------------- registries with ties
\* The filter and sort of scanProviders on registries whose providers share
\* priority numbers: the registry of the component with its priorities drawn
\* anew, and the scan passes of the timer on it.
TieRegistries ==
    {[i \in Idx |-> [InitialProviders[i] EXCEPT !.priority = prio[i]]] :
        prio \in [Idx -> 1..MaxTiePriority]}

TieInit ==
    /\ \E registry \in TieRegistries : MountedWith(registry)
    /\ env = [id \in LocalIds |-> "flaky"]

TieNext ==
    \/ TimerFire(MaxScans) /\ Auto
    \/ \E s \in 1..Len(scans) : \E i \in Idx : ScanProbeSettle(s, i, Latencies) /\ Auto

TieSpec == TieInit /\ [][TieNext]_vars

\* ---------------------------------------------------------------- every operation on the registries
\* The passes and the manual operations of both components, for a bounded
\* number of passes and of clicks.
RegistryNext ==
    \/ TimerFire(MaxScans) /\ PagePass(mdVars)
    \/ \E s \in 1..Len(scans) : \E i \in Idx : ScanProbeSettle(s, i, Latencies) /\ Auto
    \/ DetectTimerFire(MaxModelScans) /\ PagePass(mcpVars)
    \/ \E s \in 1..Len(modelScans) : \E i \in MIdx :
          ModelProbeSettle(s, i, ProbeMetrics) /\ ModelAuto
    \/ \E i \in Idx : ConnectClick(i) /\ Click
    \/ \E c \in 1..Len(connects) : ConnectSettle(c, Latencies) /\ Auto
    \/ \E i \in Idx : DisconnectProvider(i) /\ Click
    \/ \E i \in MIdx : SelectModel(i) /\ ModelClick
    \/ \E i \in MIdx : BenchmarkClick(i) /\ ModelClick
    \/ \E b \in 1..Len(benchmarks) : BenchmarkSettle(b, BenchmarkMetrics) /\ ModelAuto

RegistrySpec == Init /\ [][RegistryNext]_vars

\* ---------------------------------------------------------------- claims
\* the results array the rest of scanProviders reads in a step that ends pass s:
\* the results collected so far and the one of the probe that settles in the step
FinalResults(s) ==
    [i \in Idx |->
        IF scans[s].results[i] # "pending" THEN scans[s].results[i]
        ELSE IF providers'[i].status = "connected" THEN "true" ELSE "false"]

PassEnds(s) == scans' = RemoveAt(scans, s)

\* the local endpoints that answer, and the one of them the registry ranks first
UpIds == {id \in LocalIds : env[id] = "up"}
FirstUp ==
    CHOOSE i \in Idx :
        /\ providers[i].id \in UpIds
        /\ \A j \in Idx : providers[j].id \in UpIds => providers[i].priority <= providers[j].priority

\* the health check has just found the active provider unreachable, another
\* local endpoint answers, and the endpoints stay as they are
C1_Degraded ==
    /\ activeProvider # NULL
    /\ activeProvider.id \in LocalIds \ UpIds
    /\ StatusOf(providers, activeProvider.id) = "error"
    /\ passes = 0
    /\ UpIds # {}
    /\ envChanges = MaxEnvChanges

C2_ActiveIsReachable ==
    (activeProvider # NULL /\ scans = << >>) =>
        StatusOf(providers, activeProvider.id) = "connected"

\* C3: a scan pass in which providers are reachable selects the reachable
\* provider with the lowest priority number, whatever the latencies.
C3_PriorityDominates ==
    [][\A s \in 1..Len(scans) :
          PassEnds(s) =>
             LET reachable == {i \in Idx : FinalResults(s)[i] = "true"}
             IN  reachable # {} =>
                    /\ activeProvider' # NULL
                    /\ \E i \in reachable : activeProvider'.id = providers[i].id
                    /\ \A i \in reachable : activeProvider'.priority <= providers[i].priority]_vars

\* a pass has ended with the first provider selected although a provider of a
\* higher priority number answered, and answered faster
C3_Witness ==
    /\ scans = << >>
    /\ activeProvider # NULL
    /\ \E i, j \in Idx :
          /\ providers[i].id = activeProvider.id
          /\ providers[i].status = "connected"
          /\ providers[j].status = "connected"
          /\ providers[j].priority > providers[i].priority
          /\ providers[j].latency < providers[i].latency

\* C4: a scanModels pass that finds no model reachable ends normally: the
\* active model is null, the parent has been handed null, no error has left
\* the function and isScanning is false again.
C4_NullSelectionNoError ==
    [][\A s \in 1..Len(modelScans) :
          (ModelPassEnds(s) /\ \A i \in MIdx : FinalModelResults(s)[i] # "true") =>
             /\ activeModel' = NULL
             /\ detectedModels' = NULL
             /\ uncaughtError' = uncaughtError
             /\ ~isScanningModels']_vars

C6_ProbeNeverRejects ==
    /\ ~probeError
    /\ \A s \in 1..Len(scans) : \A i \in Idx :
          scans[s].results[i] \in {"pending", "true", "false"}
    /\ \A s \in 1..Len(modelScans) : \A i \in MIdx :
          modelScans[s].results[i] \in {"pending", "true", "false"}

\* a failed check is data in both components: each pass holds false for an
\* endpoint that is in status error, and is still collecting
C6_Witness ==
    /\ \E s \in 1..Len(scans) : \E i \in Idx :
          scans[s].results[i] = "false" /\ providers[i].status = "error"
    /\ \E s \in 1..Len(modelScans) : \E i \in MIdx :
          modelScans[s].results[i] = "false" /\ models[i].status = "error"

\* C7: a pass of either component invokes the probe once per registered
\* endpoint and never again, and it ends only in the step in which the last
\* outstanding probe settles, with the results of all the others, failed or
\* not, collected.
C7_OneProbePerEndpoint ==
    [][/\ \A s \in 1..Len(scans') : \A i \in Idx : scans'[s].calls[i] = 1
       /\ \A s \in 1..Len(modelScans') : \A i \in MIdx : modelScans'[s].calls[i] = 1
       /\ \A s \in 1..Len(scans) :
             PassEnds(s) =>
                /\ Cardinality({i \in Idx : scans[s].results[i] = "pending"}) = 1
                /\ \A i \in Idx : scans[s].calls[i] = 1
       /\ \A s \in 1..Len(modelScans) :
             ModelPassEnds(s) =>
                /\ Cardinality({i \in MIdx : modelScans[s].results[i] = "pending"}) = 1
                /\ \A i \in MIdx : modelScans[s].calls[i] = 1]_vars

\* passes of both components that hold a failed result beside a successful
\* one, still collecting
C7_Witness ==
    /\ \E s \in 1..Len(scans) : \E i, j, k \in Idx :
          /\ scans[s].results[i] = "false"
          /\ scans[s].results[j] = "true"
          /\ scans[s].results[k] = "pending"
    /\ \E s \in 1..Len(modelScans) : \E i, j, k \in MIdx :
          /\ modelScans[s].results[i] = "false"
          /\ modelScans[s].results[j] = "true"
          /\ modelScans[s].results[k] = "pending"

\* C8: every scan completes: when no scanModels pass is awaiting its probes,
\* isScanning of ModelDetector is false.
C8_ScanCompletes == modelScans = << >> => ~isScanningModels

\* C9: a full scan that no click has asked for starts only at startup or after
\* a failed re-probe of the health check that no pass has answered yet.
C9_ScanOnlyOnTrigger ==
    [][(TimerFire(MaxScans) /\ clicks' = clicks) => (~initialScan \/ passes = 0)]_vars

\* C10: a failed re-probe is followed by exactly one re-selection pass: no
\* second pass starts, by the timer, before the health check fails again.
C10_OnePassPerDegradation ==
    [][(TimerFire(MaxScans) /\ clicks' = clicks) => passes < 1]_vars

\* C11: a pass that is cancelled by the teardown of the component while its
\* probes are in flight sends no change notification: after the unmount the
\* provider the page holds stays as it was.
C11_CancelledPassIsSilent ==
    [][~scanTimer => activeMCPProvider' = activeMCPProvider]_vars

\* C12: scoring is deterministic: a model that was scored and is scored again
\* from a probe with the same reachability and the same latency keeps its
\* overallScore.
C12_ScoreDeterministic ==
    [][\A i \in MIdx :
          (models[i].overallScore > 0 /\ models'[i].status = "available"
             /\ models'[i].latency = models[i].latency)
          => models'[i].overallScore = models[i].overallScore]_vars

\* C13: selecting is idempotent: a scanModels pass whose probes turn out as
\* those of the pass before it (same reachability, same metrics) selects the
\* same model with the same score.
C13_SameOutcomesSameSelection ==
    [][\A s \in 1..Len(modelScans) :
          (/\ ModelPassEnds(s)
           /\ lastModelPass.results = FinalModelResults(s)
           /\ lastModelPass.metrics =
                 [i \in MIdx |-> <<models'[i].latency, models'[i].overallScore>>])
          => activeModel' = lastModelPass.selection]_vars

\* C14: a model whose latest probe failed carries a score strictly below the
\* score of every model whose latest probe succeeded: a failed probe does not
\* leave an earlier score in place.
C14_UnreachableScoresLowest ==
    \A i \in MIdx : \A j \in MIdx :
        (models[i].status = "error" /\ models[j].status = "available")
        => models[i].overallScore < models[j].overallScore

\* C15: within a pass the selection is written, and the page told, only in
\* the step in which the last outstanding probe of the pass settles: nothing
\* is written from a part of the batch.
C15_WriteAfterAllSettled ==
    [][/\ (activeProvider' # activeProvider \/ activeMCPProvider' # activeMCPProvider) =>
             \E s \in 1..Len(scans) :
                /\ PassEnds(s)
                /\ Cardinality({i \in Idx : scans[s].results[i] # "pending"}) = N - 1
       /\ (activeModel' # activeModel \/ detectedModels' # detectedModels) =>
             \E s \in 1..Len(modelScans) :
                /\ ModelPassEnds(s)
                /\ Cardinality({i \in MIdx : modelScans[s].results[i] # "pending"}) = M - 1]_vars

\* both components hold the answer of a reachable endpoint while a probe of the
\* same pass is outstanding, and neither has selected anything yet
C15_Witness ==
    /\ activeProvider = NULL
    /\ activeModel = NULL
    /\ \E s \in 1..Len(scans) : \E i, k \in Idx :
          scans[s].results[i] = "true" /\ scans[s].results[k] = "pending"
    /\ \E s \in 1..Len(modelScans) : \E i, k \in MIdx :
          modelScans[s].results[i] = "true" /\ modelScans[s].results[k] = "pending"

\* C16: the active provider has a single writer: it changes only in the step
\* that ends a scan pass or in a step of the health check; a manual connect or
\* disconnect leaves it as it is.
C16_SingleWriter ==
    [][activeProvider' # activeProvider =>
          \/ \E s \in 1..Len(scans) : PassEnds(s)
          \/ \E m \in 1..Len(monitors) : monitors' = RemoveAt(monitors, m)]_vars

\* C17: while no MCP provider is active and ZombieCoder is not connected, no
\* auto-analysis is scheduled and no call of analyzeCode enters the analyzing
\* state or starts an analysis that could yield suggestions; analyzeCode
\* itself never changes the text.
C17_NoAnalysisWithoutSelection ==
    [][/\ ~McpActive' => ~debounceTimer'
       /\ ~McpActive =>
             /\ Len(analyses') <= Len(analyses)
             /\ isAnalyzing' => isAnalyzing
             /\ agentMessage' = "analyzing" => agentMessage = "analyzing"
       /\ Len(analyses') > Len(analyses) => code' = code]_vars

\* the selection is null again after an analysis has run: the text is long
\* and auto-analysis is switched on, yet no timer is armed and nothing is
\* being analysed
C17_Witness ==
    /\ ~McpActive
    /\ agentMessage = "complete"
    /\ agentActions # {}
    /\ code.long
    /\ autoAnalysis
    /\ ~debounceTimer
    /\ ~isAnalyzing
    /\ analyses = << >>

\* C18: once a scan pass has selected a provider, the latency held in the
\* active-provider handle, which is the one handed to the page, is the latency
\* of that provider's most recent probe.
C18_HandleIsFresh ==
    (activeProvider # NULL /\ scans = << >>) =>
        \A i \in Idx :
            providers[i].id = activeProvider.id =>
                /\ activeProvider.latency = providers[i].latency
                /\ activeMCPProvider.latency = providers[i].latency

\* C19: the model a scanModels pass selects is the reachable model whose score,
\* computed from the probes of that same pass, is the highest: no reachable
\* model of the pass has a higher new score than the selected one.
C19_BestByFreshScore ==
    [][\A s \in 1..Len(modelScans) :
          (ModelPassEnds(s) /\ ~modelScans[s].filterBengali /\ activeModel' # NULL) =>
             \A i \in MIdx : \A j \in MIdx :
                (models'[i].id = activeModel'.id /\ FinalModelResults(s)[j] = "true")
                => models'[j].overallScore <= models'[i].overallScore]_vars

\* the provider the results of a pass call for: the reachable one the registry
\* ranks first, whatever the order in which the results came in
Selected(results) ==
    LET reachable == {i \in Idx : results[i] = "true"}
    IN  IF reachable = {} THEN NULL
        ELSE providers[CHOOSE i \in reachable :
                          \A j \in reachable : providers[i].priority <= providers[j].priority]

\* C20: the provider a pass selects depends on the outcomes of its probes
\* alone: for every order in which the probes settle it is the one the
\* outcomes call for, and null when no probe succeeded.
C20_OrderIndependent ==
    [][\A s \in 1..Len(scans) :
          PassEnds(s) => activeProvider'.id = Selected(FinalResults(s)).id]_vars

\* a pass has ended whose probes settled in the reverse of the registry order,
\* all of them reachable, and the first provider of the registry is selected
C20_Witness ==
    /\ scans = << >>
    /\ settleOrder = <<4, 3, 2, 1>>
    /\ \A i \in Idx : providers[i].status = "connected"
    /\ activeProvider # NULL
    /\ activeProvider.id = providers[1].id

\* C21: the failover monitor runs exactly when a provider is active: the
\* interval of the health check is running in every state with an active
\* provider and in no state without one.
C21_MonitorIffSelection == healthInterval <=> activeProvider # NULL

\* the interval has run for an active provider, its re-probe is still in
\* flight, and the provider has since become null: the interval is stopped
C21_Witness ==
    /\ activeProvider = NULL
    /\ ~healthInterval
    /\ monitors # << >>

\* the providers other than id that are reachable now, and the one of them
\* with the lowest fallbackOrder
ReachableOthers(id) == {i \in Idx : providers[i].id # id /\ providers[i].status = "connected"}
FirstFallback(id) ==
    CHOOSE i \in ReachableOthers(id) :
        \A j \in ReachableOthers(id) : providers[i].fallbackOrder <= providers[j].fallbackOrder

\* C22: a manual connect that fails switches the active provider, when
\* auto-fallback is on, to the currently reachable other provider of the lowest
\* fallbackOrder; with auto-fallback off or no other provider reachable it
\* leaves the active provider as it is.
C22_FallbackOnFailedConnect ==
    [][\A c \in 1..Len(connects) :
          (/\ connects' = RemoveAt(connects, c)
           /\ StatusOf(providers', connects[c].provider.id) = "error")
          => IF autoFallback /\ ReachableOthers(connects[c].provider.id) # {}
             THEN activeProvider'.id = providers[FirstFallback(connects[c].provider.id)].id
             ELSE activeProvider' = activeProvider]_vars

C24_FirstRegisteredWinsTie ==
    [][\A s \in 1..Len(scans) :
          PassEnds(s) =>
             LET reachable == {i \in Idx : FinalResults(s)[i] = "true"}
                 lowest == {i \in reachable :
                               \A j \in reachable : providers[i].priority <= providers[j].priority}
             IN  reachable # {} =>
                    \A i \in lowest : (\A j \in lowest : i <= j) =>
                                         activeProvider'.id = providers[i].id]_vars

\* a pass has ended in which two reachable providers share the lowest priority
\* number, and the one registered first is the active provider
C24_Witness ==
    /\ scans = << >>
    /\ activeProvider # NULL
    /\ \E i, j \in Idx :
          /\ i < j
          /\ activeProvider.id = providers[i].id
          /\ providers[i].status = "connected"
          /\ providers[j].status = "connected"
          /\ providers[i].priority = providers[j].priority

\* what is registered of a provider and of a model, apart from what a probe writes
ProviderDescriptor(p) ==
    [id |-> p.id, type |-> p.type, priority |-> p.priority, fallbackOrder |-> p.fallbackOrder]
ModelDescriptor(m) ==
    [id |-> m.id, provider |-> m.provider, bengaliSupport |-> m.bengaliSupport,
     bengaliScore |-> m.bengaliScore]

\* C25: descriptors are immutable: in every state both registries hold the
\* entries they were created with, in their order, each with the id, type,
\* priority, fallbackOrder, capabilities and bengaliScore it was created with.
C25_DescriptorsImmutable ==
    /\ Len(providers) = N
    /\ \A i \in Idx : ProviderDescriptor(providers[i]) = ProviderDescriptor(InitialProviders[i])
    /\ Len(models) = M
    /\ \A i \in MIdx : ModelDescriptor(models[i]) = ModelDescriptor(InitialModels[i])

\* probes of both components have written their results and a provider has
\* been disconnected by hand
C25_Witness ==
    /\ \E i, j \in Idx : providers[i].status = "disconnected" /\ providers[j].status = "error"
    /\ \E i, j \in MIdx : models[i].overallScore > 0 /\ models[j].status = "error"

Least(S) == CHOOSE x \in S : \A y \in S : x <= y
Greatest(S) == CHOOSE x \in S : \A y \in S : x >= y

\* the score of a model whose latest successful probe is on record
ScoreOf(m) == OverallScore(m.speed, m.accuracy, m.latency, m.bengaliScore)

\* C26: the score of a reachable model is the fixed-weight combination of its
\* speed, accuracy, latency and bengaliScore; it does not increase with the
\* latency, does not decrease with the speed, the accuracy or the bengaliScore,
\* and for what the prober can draw it lies between 0 and 100.
C26_ScoreShape ==
    \A i \in MIdx :
        models[i].status = "available" =>
            LET m == models[i]
                b == m.bengaliScore
            IN  /\ m.overallScore = ScoreOf(m)
                /\ m.overallScore >= 0 /\ m.overallScore <= 100
                /\ \A y \in SpeedSamples :
                      LET other == OverallScore(y, m.accuracy, m.latency, b)
                      IN  /\ y <= m.speed => other <= m.overallScore
                          /\ y >= m.speed => other >= m.overallScore
                /\ \A y \in AccuracySamples :
                      LET other == OverallScore(m.speed, y, m.latency, b)
                      IN  /\ y <= m.accuracy => other <= m.overallScore
                          /\ y >= m.accuracy => other >= m.overallScore
                /\ \A y \in LatencySamples :
                      LET other == OverallScore(m.speed, m.accuracy, y, b)
                      IN  /\ y <= m.latency => other >= m.overallScore
                          /\ y >= m.latency => other <= m.overallScore
                /\ \A y \in BengaliScores :
                      LET other == OverallScore(m.speed, m.accuracy, m.latency, y)
                      IN  /\ y <= b => other <= m.overallScore
                          /\ y >= b => other >= m.overallScore
                /\ OverallScore(Least(SpeedSamples), Least(AccuracySamples),
                                Greatest(LatencySamples), b) >= 0
                /\ OverallScore(Greatest(SpeedSamples), Greatest(AccuracySamples),
                                Least(LatencySamples), b) <= 100

\* a pass has scored one model from the lowest and another from the highest
\* draw of speed and accuracy
C26_Witness ==
    \E i, j \in MIdx :
        /\ models[i].status = "available" /\ models[i].speed = 10 /\ models[i].accuracy = 80
        /\ models[j].status = "available" /\ models[j].speed = 59 /\ models[j].accuracy = 99

\* the passes of scanProviders that still await a probe
PassesInFlight == {s \in 1..Len(scans) : \E i \in Idx : scans[s].results[i] = "pending"}

\* C27: at most one pass of scanProviders is in flight at any time: no pass
\* starts, by the button or by the timer, while another still awaits its probes.
C27_OnePassInFlight == Cardinality(PassesInFlight) <= 1

\* C28: under any interleaving of scans, connects and disconnects the operation
\* that writes activeProvider started no earlier than the one that wrote it
\* before: an operation never overwrites the write of one that started later.
C28_LaterStartWins == [][startOrder'.writer >= startOrder.writer]_vars

\* C29: every scanModels pass ends normally in the page: the step that ends a
\* pass, after the active model is written and handed to the parent, lets no
\* error leave the function and leaves isScanning false, whether the selected
\* model is a model or null.
C29_ModelScanEndsNormally ==
    [][\A s \in 1..Len(modelScans) :
          ModelPassEnds(s) => (~isScanningModels' /\ ~uncaughtError')]_vars

\* the lines of the text but for line n, which reads v
WithLine(lines, n, v) == [k \in 1..Len(lines) |-> IF k = n THEN v ELSE lines[k]]

\* C30: executeAction in soft mode leaves the text of the editor as it is; in
\* strict mode it replaces the line at action.line by the suggestion and leaves
\* every other line as it is, the further lines of the suggestion standing
\* after that line for a "complete" action and nowhere otherwise; in both modes
\* the executed action leaves the list and every other suggestion stays.
C30_ExecuteActionFrame ==
    [][\A action \in agentActions :
          ExecuteAction(action) =>
             /\ agentActions' = agentActions \ {action}
             /\ action.mode = "soft" => code' = code
             /\ (action.mode = "strict" /\ action.type # "complete") =>
                   code'.lines = WithLine(code.lines, action.line, action.suggested[1])
             /\ (action.mode = "strict" /\ action.type = "complete") =>
                   code'.lines = SubSeq(code.lines, 1, action.line - 1) \o action.suggested
                                 \o SubSeq(code.lines, action.line + 1, Len(code.lines))]_vars

====
